---- MODULE Spec2Model ----
(***************************************************************************)
(* Model of package realip (src/realip.go): the private-range table, the   *)
(* classifier isPrivateAddress, the extractor getIPfromHostPort and the    *)
(* two resolvers ClientIPFromRequest and FromRequest.                      *)
(*                                                                         *)
(* A Go string is a sequence of one-character strings, so that parsing,    *)
(* splitting and trimming are computed character by character, as the      *)
(* code and the library functions it calls compute them.  A net.IP is a    *)
(* sequence of bytes; the nil IP is the empty sequence.                    *)
(***************************************************************************)
EXTENDS Integers, Sequences

VARIABLES
  cidrs,   \* the package variable cidrs: the parsed private networks
  ready,   \* whether init() has run; Go runs it before any call of the package
  input,   \* the input drawn for the one call of a sequential behaviour
  called,  \* the function that was called on it, "none" before the call
  ret,     \* what that call returned
  procs    \* the goroutines of a concurrent behaviour, each inside one call

vars == <<cidrs, ready, input, called, ret, procs>>

(***************************************************************************)
(* Strings.                                                                *)
(***************************************************************************)
DecDigits == <<"0", "1", "2", "3", "4", "5", "6", "7", "8", "9">>

HexLower == DecDigits \o <<"a", "b", "c", "d", "e", "f">>

HexUpper == DecDigits \o <<"A", "B", "C", "D", "E", "F">>

IndexIn(seq, c) ==
  IF \E k \in 1..Len(seq) : seq[k] = c
  THEN (CHOOSE k \in 1..Len(seq) : seq[k] = c /\ \A j \in 1..(k-1) : seq[j] # c) - 1
  ELSE -1

\* strings.IndexByte / bytealg.IndexByteString: 0-based index of the first c, or -1
IndexByte(s, c) == IndexIn(s, c)

\* the net package's last(s, c): 0-based index of the last c, or -1
LastIndexByte(s, c) ==
  IF \E k \in 1..Len(s) : s[k] = c
  THEN (CHOOSE k \in 1..Len(s) : s[k] = c /\ \A j \in (k+1)..Len(s) : s[j] # c) - 1
  ELSE -1

\* strings.ContainsRune(s, c)
ContainsRune(s, c) == IndexByte(s, c) >= 0

\* Go's s[from:to] with 0-based bounds
Slice(s, from, to) == SubSeq(s, from + 1, to)

IsSpace(c) == c \in {" ", "\t", "\n", "\r"}

RECURSIVE TrimLeft(_)
TrimLeft(s) == IF Len(s) > 0 /\ IsSpace(Head(s)) THEN TrimLeft(Tail(s)) ELSE s

RECURSIVE TrimRight(_)
TrimRight(s) ==
  IF Len(s) > 0 /\ IsSpace(s[Len(s)]) THEN TrimRight(SubSeq(s, 1, Len(s) - 1)) ELSE s

\* strings.TrimSpace
TrimSpace(s) == TrimRight(TrimLeft(s))

\* strings.Split(s, sep) for a one-character separator: always at least one field
RECURSIVE Split(_, _)
splitField(s, sep, i) ==
  IF i < 0 THEN <<s>>
  ELSE <<Slice(s, 0, i)>> \o Split(Slice(s, i + 1, Len(s)), sep)

Split(s, sep) == splitField(s, sep, IndexByte(s, sep))

(***************************************************************************)
(* Bytes and net.IP.                                                       *)
(***************************************************************************)
IPv4len == 4

IPv6len == 16

\* the net package's "big": dtoi and xtoi give up at this value
big == 16777215

RECURSIVE BitAnd(_, _)
BitAnd(a, b) ==
  IF a = 0 \/ b = 0 THEN 0
  ELSE (a % 2) * (b % 2) + 2 * BitAnd(a \div 2, b \div 2)

RECURSIVE Pow2(_)
Pow2(n) == IF n = 0 THEN 1 ELSE 2 * Pow2(n - 1)

Zeros(n) == [k \in 1..n |-> 0]

v4InV6Prefix == Zeros(10) \o <<255, 255>>

\* net.IPv4(a, b, c, d): the 16-byte form of an IPv4 address
IPv4(a, b, c, d) == v4InV6Prefix \o <<a, b, c, d>>

\* ip.To4(): the 4-byte form, or nil when ip is not an IPv4 address
To4(ip) ==
  IF Len(ip) = IPv4len THEN ip
  ELSE IF Len(ip) = IPv6len /\ SubSeq(ip, 1, 12) = v4InV6Prefix
       THEN SubSeq(ip, 13, 16)
       ELSE <<>>

\* dtoi: the leading decimal number of s, the characters consumed, and ok
RECURSIVE dtoiLoop(_, _, _)
dtoiLoop(s, i, n) ==
  IF i < Len(s) /\ IndexIn(DecDigits, s[i + 1]) >= 0
  THEN LET m == n * 10 + IndexIn(DecDigits, s[i + 1])
       IN  IF m >= big THEN [n |-> big, i |-> i, ok |-> FALSE]
           ELSE dtoiLoop(s, i + 1, m)
  ELSE IF i = 0 THEN [n |-> 0, i |-> 0, ok |-> FALSE]
       ELSE [n |-> n, i |-> i, ok |-> TRUE]

dtoi(s) == dtoiLoop(s, 0, 0)

HexValue(c) ==
  IF IndexIn(HexLower, c) >= 0 THEN IndexIn(HexLower, c) ELSE IndexIn(HexUpper, c)

\* xtoi: the leading hexadecimal number of s, the characters consumed, and ok
RECURSIVE xtoiLoop(_, _, _)
xtoiLoop(s, i, n) ==
  IF i < Len(s) /\ HexValue(s[i + 1]) >= 0
  THEN LET m == n * 16 + HexValue(s[i + 1])
       IN  IF m >= big THEN [n |-> 0, i |-> i, ok |-> FALSE]
           ELSE xtoiLoop(s, i + 1, m)
  ELSE IF i = 0 THEN [n |-> 0, i |-> 0, ok |-> FALSE]
       ELSE [n |-> n, i |-> i, ok |-> TRUE]

xtoi(s) == xtoiLoop(s, 0, 0)

\* one field of parseIPv4, d being dtoi of the text after the dot
RECURSIVE parseIPv4Loop(_, _, _)
parseIPv4Field(s1, i, p, d) ==
  IF ~d.ok \/ d.n > 255 THEN <<>>
  ELSE IF d.i > 1 /\ Head(s1) = "0" THEN <<>>
  ELSE parseIPv4Loop(Slice(s1, d.i, Len(s1)), i + 1, Append(p, d.n))

\* parseIPv4: four decimal fields 0..255 separated by dots, nothing else
parseIPv4Loop(s, i, p) ==
  IF i = IPv4len
  THEN IF Len(s) # 0 THEN <<>> ELSE IPv4(p[1], p[2], p[3], p[4])
  ELSE IF Len(s) = 0 THEN <<>>
  ELSE IF i > 0
       THEN IF Head(s) # "." THEN <<>> ELSE parseIPv4Field(Tail(s), i, p, dtoi(Tail(s)))
       ELSE parseIPv4Field(s, i, p, dtoi(s))

parseIPv4(s) == parseIPv4Loop(s, 0, <<>>)

\* the state of parseIPv6 when its loop is left: ok is false where it returns nil
v6State(ok, s, i, ellipsis, ip) ==
  [ok |-> ok, s |-> s, i |-> i, ellipsis |-> ellipsis, ip |-> ip]

\* the IPv4 tail of an IPv6 literal, ip4 being parseIPv4 of the rest
parseIPv6Tail(s, i, ellipsis, ip, ip4) ==
  IF ellipsis < 0 /\ i # IPv6len - IPv4len THEN v6State(FALSE, s, i, ellipsis, ip)
  ELSE IF i + IPv4len > IPv6len THEN v6State(FALSE, s, i, ellipsis, ip)
  ELSE IF ip4 = <<>> THEN v6State(FALSE, s, i, ellipsis, ip)
  ELSE v6State(TRUE, <<>>, i + IPv4len, ellipsis,
               [k \in 1..IPv6len |->
                  IF k \in (i + 1)..(i + 4) THEN ip4[12 + k - i] ELSE ip[k]])

RECURSIVE parseIPv6Loop(_, _, _, _)
\* after a group and its colon: a second colon is the ellipsis
parseIPv6Colon(s, i, ellipsis, ip) ==
  IF s[1] = ":"
  THEN IF ellipsis >= 0 THEN v6State(FALSE, s, i, ellipsis, ip)
       ELSE IF Len(s) = 1 THEN v6State(TRUE, <<>>, i, i, ip)
       ELSE parseIPv6Loop(Tail(s), i, i, ip)
  ELSE parseIPv6Loop(s, i, ellipsis, ip)

\* after a group has been stored: end of text, or a colon with more to come
parseIPv6Next(s, i, ellipsis, ip) ==
  IF Len(s) = 0 THEN v6State(TRUE, s, i, ellipsis, ip)
  ELSE IF s[1] # ":" \/ Len(s) = 1 THEN v6State(FALSE, s, i, ellipsis, ip)
  ELSE parseIPv6Colon(Tail(s), i, ellipsis, ip)

\* one group of parseIPv6, x being xtoi of the text
parseIPv6Group(s, i, ellipsis, ip, x) ==
  IF ~x.ok \/ x.n > 65535 THEN v6State(FALSE, s, i, ellipsis, ip)
  ELSE IF x.i < Len(s) /\ s[x.i + 1] = "."
  THEN parseIPv6Tail(s, i, ellipsis, ip, parseIPv4(s))
  ELSE parseIPv6Next(Slice(s, x.i, Len(s)), i + 2, ellipsis,
                     [ip EXCEPT ![i + 1] = x.n \div 256, ![i + 2] = x.n % 256])

\* the loop of parseIPv6: fills ip from offset i, remembers the "::" position
parseIPv6Loop(s, i, ellipsis, ip) ==
  IF i >= IPv6len THEN v6State(TRUE, s, i, ellipsis, ip)
  ELSE parseIPv6Group(s, i, ellipsis, ip, xtoi(s))

\* the end of parseIPv6: text left over is an error, the ellipsis is expanded
parseIPv6Expand(r) ==
  IF ~r.ok \/ Len(r.s) # 0 THEN <<>>
  ELSE IF r.i < IPv6len
  THEN IF r.ellipsis < 0 THEN <<>>
       ELSE [k \in 1..IPv6len |->
               IF k <= r.ellipsis THEN r.ip[k]
               ELSE IF k <= r.ellipsis + (IPv6len - r.i) THEN 0
               ELSE r.ip[k - (IPv6len - r.i)]]
  ELSE IF r.ellipsis >= 0 THEN <<>>
  ELSE r.ip

\* parseIPv6: hexadecimal groups, at most one "::", an optional IPv4 tail
parseIPv6(s) ==
  IF Len(s) >= 2 /\ s[1] = ":" /\ s[2] = ":"
  THEN IF Len(s) = 2 THEN Zeros(IPv6len)
       ELSE parseIPv6Expand(parseIPv6Loop(Slice(s, 2, Len(s)), 0, 0, Zeros(IPv6len)))
  ELSE parseIPv6Expand(parseIPv6Loop(s, 0, -1, Zeros(IPv6len)))

\* the first of '.' and ':' in s decides between IPv4 and IPv6
parseByFirst(s, dot, col) ==
  IF dot < 0 /\ col < 0 THEN <<>>
  ELSE IF col < 0 \/ (dot >= 0 /\ dot < col) THEN parseIPv4(s)
  ELSE parseIPv6(s)

\* net.ParseIP
ParseIP(s) == parseByFirst(s, IndexByte(s, "."), IndexByte(s, ":"))

(***************************************************************************)
(* net.IPNet and net.ParseCIDR.                                            *)
(***************************************************************************)
\* net.CIDRMask(ones, bits): ones leading one-bits in a mask of bits bits
CIDRMask(ones, bits) ==
  [k \in 1..(bits \div 8) |->
     IF ones >= 8 * k THEN 255
     ELSE IF ones <= 8 * (k - 1) THEN 0
     ELSE 256 - Pow2(8 * k - ones)]

\* ip.Mask(mask): the 4-byte form is used when a 4-byte mask meets an IPv4 address
IPMask(ip, mask) ==
  IF Len(mask) = IPv4len /\ Len(ip) = IPv6len /\ SubSeq(ip, 1, 12) = v4InV6Prefix
  THEN [k \in 1..IPv4len |-> BitAnd(ip[12 + k], mask[k])]
  ELSE IF Len(ip) # Len(mask) THEN <<>>
  ELSE [k \in 1..Len(ip) |-> BitAnd(ip[k], mask[k])]

NilIPNet == [IP |-> <<>>, Mask |-> <<>>]

\* the network of ip under its prefix length d, written in the text mask
cidrNet(ip, iplen, mask, d) ==
  IF ip = <<>> \/ ~d.ok \/ d.i # Len(mask) \/ d.n < 0 \/ d.n > 8 * iplen THEN NilIPNet
  ELSE [IP |-> IPMask(ip, CIDRMask(d.n, 8 * iplen)), Mask |-> CIDRMask(d.n, 8 * iplen)]

\* the address part is tried as IPv4 first, then as IPv6
cidrParts(addr, mask, ip4) ==
  IF ip4 # <<>> THEN cidrNet(ip4, IPv4len, mask, dtoi(mask))
  ELSE cidrNet(parseIPv6(addr), IPv6len, mask, dtoi(mask))

cidrSplit(s, i) ==
  IF i < 0 THEN NilIPNet
  ELSE cidrParts(Slice(s, 0, i), Slice(s, i + 1, Len(s)), parseIPv4(Slice(s, 0, i)))

\* net.ParseCIDR(s): the network of "address/prefix-length"; NilIPNet on error
ParseCIDR(s) == cidrSplit(s, IndexByte(s, "/"))

\* Contains on an address already reduced by To4 where that applies
containsBytes(n, ip) ==
  /\ Len(ip) = Len(n.IP)
  /\ \A k \in 1..Len(ip) : BitAnd(n.IP[k], n.Mask[k]) = BitAnd(ip[k], n.Mask[k])

\* (*IPNet).Contains(ip): byte-wise comparison under the mask, same family only
Contains(n, ip) == IF To4(ip) # <<>> THEN containsBytes(n, To4(ip)) ELSE containsBytes(n, ip)

(***************************************************************************)
(* The private-range table.                                                *)
(***************************************************************************)
\* mutant: the 20-bit block written with a 16-bit prefix
maxCidrBlocksNarrow ==
  << <<"1", "2", "7", ".", "0", ".", "0", ".", "1", "/", "8">>,
     <<"1", "0", ".", "0", ".", "0", ".", "0", "/", "8">>,
     <<"1", "7", "2", ".", "1", "6", ".", "0", ".", "0", "/", "1", "6">>,
     <<"1", "9", "2", ".", "1", "6", "8", ".", "0", ".", "0", "/", "1", "6">>,
     <<"1", "6", "9", ".", "2", "5", "4", ".", "0", ".", "0", "/", "1", "6">>,
     <<":", ":", "1", "/", "1", "2", "8">>,
     <<"f", "c", "0", "0", ":", ":", "/", "7">>,
     <<"f", "e", "8", "0", ":", ":", "/", "1", "0">> >>

maxCidrBlocks ==
  << <<"1", "2", "7", ".", "0", ".", "0", ".", "1", "/", "8">>,
     <<"1", "0", ".", "0", ".", "0", ".", "0", "/", "8">>,
     <<"1", "7", "2", ".", "1", "6", ".", "0", ".", "0", "/", "1", "2">>,
     <<"1", "9", "2", ".", "1", "6", "8", ".", "0", ".", "0", "/", "1", "6">>,
     <<"1", "6", "9", ".", "2", "5", "4", ".", "0", ".", "0", "/", "1", "6">>,
     <<":", ":", "1", "/", "1", "2", "8">>,
     <<"f", "c", "0", "0", ":", ":", "/", "7">>,
     <<"f", "e", "8", "0", ":", ":", "/", "1", "0">> >>

\* the table init() builds: one parsed network per block, in order
InitCidrs == [i \in 1..Len(maxCidrBlocks) |-> ParseCIDR(maxCidrBlocks[i])]

(***************************************************************************)
(* The classifier.                                                         *)
(***************************************************************************)
NoError == "nil"

ErrNotValid == "address is not valid"

\* the body of isPrivateAddress once the address is parsed
classify(table, ipAddress) ==
  IF ipAddress = <<>> THEN [isPrivate |-> FALSE, err |-> ErrNotValid]
  ELSE IF \E i \in 1..Len(table) : Contains(table[i], ipAddress)
       THEN [isPrivate |-> TRUE, err |-> NoError]
       ELSE [isPrivate |-> FALSE, err |-> NoError]

\* isPrivateAddress reads the package variable cidrs
isPrivateAddress(address) == classify(cidrs, ParseIP(address))

(***************************************************************************)
(* The extractor.                                                          *)
(***************************************************************************)
SplitError == [host |-> <<>>, port |-> <<>>, err |-> "AddrError"]

\* "[host]:port": i is the last colon, end the first ']'
splitBracketed(hostport, i, end) ==
  IF end < 0 \/ end + 1 # i THEN SplitError
  ELSE IF IndexByte(Slice(hostport, 1, Len(hostport)), "[") >= 0 THEN SplitError
  ELSE IF IndexByte(Slice(hostport, end + 1, Len(hostport)), "]") >= 0 THEN SplitError
  ELSE [host |-> Slice(hostport, 1, end), port |-> Slice(hostport, i + 1, Len(hostport)),
        err |-> NoError]

\* "host:port": i is the last colon, and host may hold no other
splitPlain(hostport, i) ==
  IF IndexByte(Slice(hostport, 0, i), ":") >= 0 THEN SplitError
  ELSE IF IndexByte(hostport, "[") >= 0 THEN SplitError
  ELSE IF IndexByte(hostport, "]") >= 0 THEN SplitError
  ELSE [host |-> Slice(hostport, 0, i), port |-> Slice(hostport, i + 1, Len(hostport)),
        err |-> NoError]

splitAt(hostport, i) ==
  IF i < 0 THEN SplitError
  ELSE IF hostport[1] = "[" THEN splitBracketed(hostport, i, IndexByte(hostport, "]"))
  ELSE splitPlain(hostport, i)

\* net.SplitHostPort
SplitHostPort(hostport) == splitAt(hostport, LastIndexByte(hostport, ":"))

\* remoteIP after the split: empty on error
hostOrEmpty(sp) == IF sp.err # NoError THEN <<>> ELSE sp.host

\* mutant: the result is not trimmed
getIPfromHostPortUntrimmed(hostPort) ==
  IF ContainsRune(hostPort, ":") THEN hostOrEmpty(SplitHostPort(hostPort)) ELSE hostPort

getIPfromHostPort(hostPort) ==
  TrimSpace(IF ContainsRune(hostPort, ":") THEN hostOrEmpty(SplitHostPort(hostPort))
            ELSE hostPort)

\* err == nil && !isPrivate
publicResult(r) == r.err = NoError /\ ~r.isPrivate

isValidPublicIP(ip) == publicResult(isPrivateAddress(ip))

(***************************************************************************)
(* Requests: http.Header maps a canonical header name to its values.       *)
(***************************************************************************)
HeaderNames == {"X-Forwarded-For", "X-Real-Ip", "X-Client-Ip"}

\* Header.Get(name): the first value of the header, "" when there is none
Get(header, name) == IF Len(header[name]) = 0 THEN <<>> ELSE header[name][1]

(***************************************************************************)
(* The resolvers.                                                          *)
(***************************************************************************)
NoAddress == [found |-> FALSE, ip |-> <<>>]

\* the range loop over the X-Forwarded-For entries: the first public one, or none
RECURSIVE scanForwardedFor(_, _)
scanEntry(addresses, k, clientIP) ==
  IF isValidPublicIP(clientIP) THEN [found |-> TRUE, ip |-> clientIP]
  ELSE scanForwardedFor(addresses, k + 1)

scanForwardedFor(addresses, k) ==
  IF k > Len(addresses) THEN NoAddress
  ELSE scanEntry(addresses, k, getIPfromHostPort(addresses[k]))

\* mutant: the connection address is returned without being classified
fromRemoteAddrUnchecked(clientIP) ==
  IF clientIP # <<>> THEN [ip |-> clientIP, source |-> "remoteAddr"]
  ELSE [ip |-> <<>>, source |-> ""]

\* "Try from r.RemoteAddr", then give up
fromRemoteAddr(clientIP) ==
  IF isValidPublicIP(clientIP) THEN [ip |-> clientIP, source |-> "remoteAddr"]
  ELSE [ip |-> <<>>, source |-> ""]

\* mutant: an address from X-Client-Ip is tagged as X-Real-Ip
fromClientIPMistagged(r, clientIP) ==
  IF isValidPublicIP(clientIP) THEN [ip |-> clientIP, source |-> "X-Real-Ip"]
  ELSE fromRemoteAddr(getIPfromHostPort(r.RemoteAddr))

\* "Try from X-Client-IP"
fromClientIP(r, clientIP) ==
  IF isValidPublicIP(clientIP) THEN [ip |-> clientIP, source |-> "X-Client-Ip"]
  ELSE fromRemoteAddr(getIPfromHostPort(r.RemoteAddr))

\* mutant: a non-empty X-Real-Ip is returned without being classified
fromRealIPUnchecked(r, clientIP) ==
  IF clientIP # <<>> THEN [ip |-> clientIP, source |-> "X-Real-Ip"]
  ELSE fromClientIP(r, getIPfromHostPort(Get(r.Header, "X-Client-Ip")))

\* "Try from X-Real-Ip"
fromRealIP(r, clientIP) ==
  IF isValidPublicIP(clientIP) THEN [ip |-> clientIP, source |-> "X-Real-Ip"]
  ELSE fromClientIP(r, getIPfromHostPort(Get(r.Header, "X-Client-Ip")))

\* mutant: X-Client-Ip is tried before X-Real-Ip
fromForwardedForClientFirst(r, fwd) ==
  IF fwd.found THEN [ip |-> fwd.ip, source |-> "X-Forwarded-For"]
  ELSE IF isValidPublicIP(getIPfromHostPort(Get(r.Header, "X-Client-Ip")))
  THEN [ip |-> getIPfromHostPort(Get(r.Header, "X-Client-Ip")), source |-> "X-Client-Ip"]
  ELSE fromRealIP(r, getIPfromHostPort(Get(r.Header, "X-Real-Ip")))

\* "Try from X-Forwarded-For and return the first global address"
fromForwardedFor(r, fwd) ==
  IF fwd.found THEN [ip |-> fwd.ip, source |-> "X-Forwarded-For"]
  ELSE fromRealIP(r, getIPfromHostPort(Get(r.Header, "X-Real-Ip")))

ClientIPFromRequest(r) ==
  fromForwardedFor(r, scanForwardedFor(Split(Get(r.Header, "X-Forwarded-For"), ","), 1))

\* mutant: the legacy loop strips the port as the primary loop does
RECURSIVE scanLegacyExtracting(_, _)
scanLegacyExtracting(addresses, k) ==
  IF k > Len(addresses) THEN NoAddress
  ELSE IF isValidPublicIP(getIPfromHostPort(addresses[k]))
  THEN [found |-> TRUE, ip |-> getIPfromHostPort(addresses[k])]
  ELSE scanLegacyExtracting(addresses, k + 1)

\* the legacy range loop: entries are trimmed only, the port is not removed
RECURSIVE scanLegacy(_, _)
scanLegacyEntry(addresses, k, address) ==
  IF publicResult(isPrivateAddress(address)) THEN [found |-> TRUE, ip |-> address]
  ELSE scanLegacy(addresses, k + 1)

scanLegacy(addresses, k) ==
  IF k > Len(addresses) THEN NoAddress
  ELSE scanLegacyEntry(addresses, k, TrimSpace(addresses[k]))

\* mutant: X-Real-Ip is returned only if it is a public address
legacyResultValidated(fwd, xRealIP) ==
  IF fwd.found THEN fwd.ip
  ELSE IF isValidPublicIP(xRealIP) THEN xRealIP
  ELSE <<>>

\* "If nothing succeed, return X-Real-IP"
legacyResult(fwd, xRealIP) == IF fwd.found THEN fwd.ip ELSE xRealIP

\* mutant: the connection address is returned only if it is a public address
fromHeadersClassified(r, xRealIP, xForwardedFor) ==
  IF xRealIP = <<>> /\ xForwardedFor = <<>>
  THEN IF isValidPublicIP(getIPfromHostPort(r.RemoteAddr))
       THEN getIPfromHostPort(r.RemoteAddr)
       ELSE <<>>
  ELSE legacyResult(scanLegacy(Split(xForwardedFor, ","), 1), xRealIP)

\* FromRequest once both header values are fetched
fromHeaders(r, xRealIP, xForwardedFor) ==
  IF xRealIP = <<>> /\ xForwardedFor = <<>>
  THEN IF ContainsRune(r.RemoteAddr, ":")
       THEN SplitHostPort(r.RemoteAddr).host
       ELSE r.RemoteAddr
  ELSE legacyResult(scanLegacy(Split(xForwardedFor, ","), 1), xRealIP)

FromRequest(r) ==
  fromHeaders(r, Get(r.Header, "X-Real-Ip"), Get(r.Header, "X-Forwarded-For"))

RealIP(r) == FromRequest(r)

(***************************************************************************)
(* Inputs.  Addresses are drawn as numbers and written out as text, so     *)
(* that the classifier is exercised through ParseIP; candidates are built  *)
(* from a host, an optional port and optional padding.                     *)
(***************************************************************************)
RECURSIVE FormatBase(_, _, _)
FormatBase(n, base, digits) ==
  IF n < base THEN <<digits[n + 1]>>
  ELSE FormatBase(n \div base, base, digits) \o <<digits[(n % base) + 1]>>

FormatDec(n) == FormatBase(n, 10, DecDigits)

FormatHex(n) == FormatBase(n, 16, HexLower)

RECURSIVE Join(_, _)
Join(parts, sep) ==
  IF Len(parts) = 0 THEN <<>>
  ELSE IF Len(parts) = 1 THEN parts[1]
  ELSE parts[1] \o sep \o Join(Tail(parts), sep)

\* dotted-decimal text of four bytes
Dotted(o) == Join([k \in 1..4 |-> FormatDec(o[k])], <<".">>)

\* text of eight 16-bit groups, the leftmost longest run of zero groups as "::"
Colons(g) ==
  LET hex  == [k \in 1..8 |-> FormatHex(g[k])]
      runs == {r \in (1..8) \X (1..8) :
                 r[1] < r[2] /\ \A k \in r[1]..r[2] : g[k] = 0}
      best == CHOOSE r \in runs : \A q \in runs :
                 \/ r[2] - r[1] > q[2] - q[1]
                 \/ (r[2] - r[1] = q[2] - q[1] /\ r[1] <= q[1])
  IN  IF runs = {} THEN Join(hex, <<":">>)
      ELSE Join(SubSeq(hex, 1, best[1] - 1), <<":">>) \o <<":", ":">>
             \o Join(SubSeq(hex, best[2] + 1, 8), <<":">>)

Space == <<" ">>

Port1234 == <<"1", "2", "3", "4">>

WithPort(host, port) == host \o <<":">> \o port

Bracketed(host) == <<"[">> \o host \o <<"]">>

\* --- classifier inputs ---
FirstOctets == {8, 9, 10, 11, 126, 127, 128, 147, 168, 169, 170, 171, 172, 173, 191, 192, 193}

SecondOctets == {0, 12, 15, 16, 17, 31, 32, 167, 168, 169, 253, 254, 255}

LastOctets == {0, 1, 255}

FirstGroups == {0, 8193, 64511, 64512, 64768, 65023, 65024, 65151, 65152, 65215, 65216, 65282}

LastGroups == {0, 1, 2}

NotAddresses ==
  { <<>>, <<"a", "b", "c">>, <<"-", "-">>, <<":">>, <<"1", ".", "2", ".", "3">>,
    <<"2", "5", "6", ".", "0", ".", "0", ".", "1">>,
    WithPort(Dotted(<<127, 0, 0, 1>>), Port1234),
    Space \o Dotted(<<8, 8, 8, 8>>) }

AddressInputs ==
  {[family |-> "v4", bytes |-> <<a, b, 0, d>>] :
     a \in FirstOctets, b \in SecondOctets, d \in LastOctets}
  \cup {[family |-> "mapped", bytes |-> <<a, b, 0, 1>>] :
     a \in {10, 172, 147}, b \in {15, 16, 31, 32}}
  \cup {[family |-> "v6", groups |-> <<g, 0, 0, 0, 0, 0, h, l>>] :
     g \in FirstGroups, h \in {0, 3512}, l \in LastGroups}
  \cup {[family |-> "text", text |-> t] : t \in NotAddresses}

\* the address string handed to isPrivateAddress
AddressText(in) ==
  CASE in.family = "v4"     -> Dotted(in.bytes)
    [] in.family = "mapped" -> <<":", ":", "f", "f", "f", "f", ":">> \o Dotted(in.bytes)
    [] in.family = "v6"     -> Colons(in.groups)
    [] in.family = "text"   -> in.text

\* --- extractor inputs ---
PlainHosts ==
  { Dotted(<<127, 0, 0, 1>>), Dotted(<<144, 12, 54, 87>>), <<"-", "-">>, <<"a", "b", "c">>, <<>> }

ColonHosts ==
  { Colons(<<0, 0, 0, 0, 0, 0, 0, 1>>), Colons(<<8193, 3512, 0, 0, 0, 0, 0, 1>>),
    Colons(<<65152, 0, 0, 0, 0, 0, 0, 1>>) }

Ports == { <<>>, <<"8", "0">>, Port1234 }

Pads == { <<>>, Space, <<" ", "\t">> }

Forms == {"bare", "hostport", "bracket", "barecolons", "bracketnoport", "noclose", "strayclose"}

CandidateInputs ==
  {[form |-> f, lpad |-> l, host |-> h, port |-> p, rpad |-> r] :
     f \in Forms, l \in {<<>>, Space}, r \in Pads, p \in Ports,
     h \in PlainHosts \cup ColonHosts}

\* only the combinations that make sense for a form
WellFormedCandidate(in) ==
  CASE in.form = "bare"          -> in.host \in PlainHosts /\ in.port = <<>>
    [] in.form = "hostport"      -> in.host \in PlainHosts
    [] in.form = "bracket"       -> in.host \in ColonHosts
    [] in.form = "barecolons"    -> in.host \in ColonHosts /\ in.port = <<>>
    [] in.form = "bracketnoport" -> in.host \in ColonHosts /\ in.port = <<>>
    [] in.form = "noclose"       -> in.host \in ColonHosts
    [] in.form = "strayclose"    -> in.host \in PlainHosts

\* the candidate string handed to getIPfromHostPort
CandidateText(in) ==
  in.lpad \o
  (CASE in.form = "bare"          -> in.host
     [] in.form = "hostport"      -> WithPort(in.host, in.port)
     [] in.form = "bracket"       -> WithPort(Bracketed(in.host), in.port)
     [] in.form = "barecolons"    -> in.host
     [] in.form = "bracketnoport" -> Bracketed(in.host)
     [] in.form = "noclose"       -> WithPort(<<"[">> \o in.host, in.port)
     [] in.form = "strayclose"    -> WithPort(in.host \o <<"]">>, in.port))
  \o in.rpad

\* --- resolver inputs ---
MaxEntries == 2

PrivateEntry == Space \o Dotted(<<127, 0, 0, 1>>) \o Space

PublicEntry == Space \o Dotted(<<115, 98, 247, 136>>)

PublicPortEntry == Space \o WithPort(Dotted(<<144, 12, 54, 87>>), Port1234) \o Space

PublicColonsEntry == Colons(<<8193, 3512, 0, 0, 0, 0, 0, 1>>)

Malformed == <<":">>

EntryPool == {PrivateEntry, PublicEntry, PublicPortEntry, PublicColonsEntry, Malformed, <<>>}

\* a second X-Forwarded-For line, which Header.Get does not return
SecondLine == Dotted(<<9, 9, 9, 9>>)

PrivateRealIP == WithPort(Dotted(<<127, 0, 0, 1>>), Port1234)

PublicRealIP == Dotted(<<119, 14, 55, 11>>)

\* the values of X-Real-Ip: none, one empty value, a private one, a public one
RealIPPool == { <<>>, << <<>> >>, <<PrivateRealIP>>, <<PublicRealIP>> }

PublicClientIP == Space \o WithPort(Dotted(<<119, 14, 55, 12>>), Port1234)

ClientIPPool == { <<>>, <<PublicClientIP>> }

\* connection addresses, by host, whether a port follows, and IPv6 brackets
RemoteAddrPool ==
  { [host |-> <<"-", "-">>, port |-> FALSE, brackets |-> FALSE],
    [host |-> Dotted(<<192, 168, 0, 7>>), port |-> TRUE, brackets |-> FALSE],
    [host |-> Dotted(<<144, 12, 54, 88>>), port |-> FALSE, brackets |-> FALSE],
    [host |-> Dotted(<<144, 12, 54, 89>>), port |-> TRUE, brackets |-> FALSE],
    [host |-> Colons(<<0, 0, 0, 0, 0, 0, 0, 1>>), port |-> FALSE, brackets |-> FALSE],
    [host |-> Colons(<<8193, 3512, 0, 0, 0, 0, 0, 2>>), port |-> TRUE, brackets |-> TRUE] }

\* the text of a connection address
RemoteText(ra) ==
  IF ra.port THEN WithPort(IF ra.brackets THEN Bracketed(ra.host) ELSE ra.host, Port1234)
  ELSE ra.host

EntryLists == UNION {[1..n -> EntryPool] : n \in 0..MaxEntries}

RequestInputs ==
  {[entries |-> es, second |-> sl, realIP |-> ri, clientIP |-> ci, remoteAddr |-> ra] :
     es \in EntryLists, sl \in BOOLEAN, ri \in RealIPPool, ci \in ClientIPPool,
     ra \in RemoteAddrPool}

\* the *http.Request the collaborator hands over
Request(in) ==
  [Header |->
     [n \in HeaderNames |->
        CASE n = "X-Forwarded-For" ->
               IF Len(in.entries) = 0 THEN <<>>
               ELSE << Join(in.entries, <<",">>) >> \o (IF in.second THEN <<SecondLine>> ELSE <<>>)
          [] n = "X-Real-Ip"       -> in.realIP
          [] n = "X-Client-Ip"     -> in.clientIP],
   RemoteAddr |-> RemoteText(in.remoteAddr)]

(***************************************************************************)
(* Sequential behaviour: the package is initialized, then one call is made *)
(* on the drawn input.                                                     *)
(***************************************************************************)
NoResult == [op |-> "none"]

\* func init(): builds the table once, before any call can be made
init ==
  /\ ~ready
  /\ cidrs' = InitCidrs
  /\ ready' = TRUE
  /\ UNCHANGED <<input, called, ret, procs>>

CallIsPrivateAddress ==
  /\ ready /\ called = "none"
  /\ called' = "isPrivateAddress"
  /\ ret' = isPrivateAddress(AddressText(input))
  /\ UNCHANGED <<cidrs, ready, input, procs>>

CallGetIPfromHostPort ==
  /\ ready /\ called = "none"
  /\ called' = "getIPfromHostPort"
  /\ ret' = getIPfromHostPort(CandidateText(input))
  /\ UNCHANGED <<cidrs, ready, input, procs>>

CallClientIPFromRequest ==
  /\ ready /\ called = "none"
  /\ called' = "ClientIPFromRequest"
  /\ ret' = ClientIPFromRequest(Request(input))
  /\ UNCHANGED <<cidrs, ready, input, procs>>

CallFromRequest ==
  /\ ready /\ called = "none"
  /\ called' = "FromRequest"
  /\ ret' = FromRequest(Request(input))
  /\ UNCHANGED <<cidrs, ready, input, procs>>

CallRealIP ==
  /\ ready /\ called = "none"
  /\ called' = "RealIP"
  /\ ret' = RealIP(Request(input))
  /\ UNCHANGED <<cidrs, ready, input, procs>>

InitWith(inputs) ==
  /\ cidrs = <<>>
  /\ ready = FALSE
  /\ input \in inputs
  /\ called = "none"
  /\ ret = NoResult
  /\ procs = <<>>

Init == InitWith(RequestInputs)

Next == init \/ CallClientIPFromRequest \/ CallFromRequest \/ CallRealIP

Spec == Init /\ [][Next]_vars

InitClassifier == InitWith(AddressInputs)

NextClassifier == init \/ CallIsPrivateAddress

SpecClassifier == InitClassifier /\ [][NextClassifier]_vars

InitExtractor == InitWith({in \in CandidateInputs : WellFormedCandidate(in)})

NextExtractor == init \/ CallGetIPfromHostPort

SpecExtractor == InitExtractor /\ [][NextExtractor]_vars

(***************************************************************************)
(* Concurrent behaviour: after init, several goroutines call the           *)
(* classifier and the two resolvers.  A step of a call is one candidate:   *)
(* at most one reading of the table by isPrivateAddress.                   *)
(***************************************************************************)
NumProcs == 2

Procs == 1..NumProcs

\* the calls a goroutine may make
CallPool ==
  {[op |-> "isPrivateAddress", in |-> a] :
     a \in {[family |-> "v4", bytes |-> <<172, 16, 0, 1>>],
            [family |-> "v6", groups |-> <<8193, 0, 0, 0, 0, 0, 0, 1>>]}}
  \cup
  {[op |-> o, in |-> [entries |-> es, second |-> FALSE, realIP |-> <<PrivateRealIP>>,
                      clientIP |-> <<>>, remoteAddr |-> ra]] :
     o \in {"ClientIPFromRequest", "FromRequest"},
     es \in {<<PrivateEntry, PublicPortEntry>>, <<Malformed>>},
     ra \in {[host |-> Dotted(<<144, 12, 54, 89>>), port |-> TRUE, brackets |-> FALSE]}}

\* a goroutine's call is finished with result res
finished(proc, res) == [proc EXCEPT !.done = TRUE, !.res = res]

\* a goroutine's call moves on to its next candidate
advanced(proc) == [proc EXCEPT !.k = proc.k + 1]

\* the candidates ClientIPFromRequest goes through, in its order
callCandidates(r) ==
  [k \in 1..Len(Split(Get(r.Header, "X-Forwarded-For"), ",")) |->
     [text |-> Split(Get(r.Header, "X-Forwarded-For"), ",")[k], source |-> "X-Forwarded-For"]]
  \o << [text |-> Get(r.Header, "X-Real-Ip"), source |-> "X-Real-Ip"],
        [text |-> Get(r.Header, "X-Client-Ip"), source |-> "X-Client-Ip"],
        [text |-> r.RemoteAddr, source |-> "remoteAddr"] >>

\* one candidate of ClientIPFromRequest: returned if public, else the next one
clientIPStep(proc, cands, clientIP) ==
  IF isValidPublicIP(clientIP)
  THEN finished(proc, [ip |-> clientIP, source |-> cands[proc.k].source])
  ELSE IF proc.k = Len(cands) THEN finished(proc, [ip |-> <<>>, source |-> ""])
  ELSE advanced(proc)

\* one entry of FromRequest's loop: returned if public, else the next one
fromRequestStep(proc, addresses, address, xRealIP) ==
  IF publicResult(isPrivateAddress(address)) THEN finished(proc, address)
  ELSE IF proc.k = Len(addresses) THEN finished(proc, xRealIP)
  ELSE advanced(proc)

\* FromRequest: the connection address without the headers, else one entry
fromRequestNext(proc, r, xRealIP, xForwardedFor) ==
  IF xRealIP = <<>> /\ xForwardedFor = <<>>
  THEN finished(proc, IF ContainsRune(r.RemoteAddr, ":")
                      THEN SplitHostPort(r.RemoteAddr).host
                      ELSE r.RemoteAddr)
  ELSE fromRequestStep(proc, Split(xForwardedFor, ","),
                       TrimSpace(Split(xForwardedFor, ",")[proc.k]), xRealIP)

\* mutant: the classifier moves the block it tried first to the end of the table
StepIsPrivateAddressReordering(p) ==
  /\ ready /\ ~procs[p].done /\ procs[p].op = "isPrivateAddress"
  /\ procs' = [procs EXCEPT
                 ![p] = finished(procs[p], isPrivateAddress(AddressText(procs[p].in)))]
  /\ cidrs' = Tail(cidrs) \o <<Head(cidrs)>>
  /\ UNCHANGED <<ready, input, called, ret>>

StepIsPrivateAddress(p) ==
  /\ ready /\ ~procs[p].done /\ procs[p].op = "isPrivateAddress"
  /\ procs' = [procs EXCEPT
                 ![p] = finished(procs[p], isPrivateAddress(AddressText(procs[p].in)))]
  /\ UNCHANGED <<cidrs, ready, input, called, ret>>

StepClientIPFromRequest(p) ==
  /\ ready /\ ~procs[p].done /\ procs[p].op = "ClientIPFromRequest"
  /\ procs' = [procs EXCEPT
                 ![p] = clientIPStep(procs[p], callCandidates(Request(procs[p].in)),
                          getIPfromHostPort(
                            callCandidates(Request(procs[p].in))[procs[p].k].text))]
  /\ UNCHANGED <<cidrs, ready, input, called, ret>>

StepFromRequest(p) ==
  /\ ready /\ ~procs[p].done /\ procs[p].op = "FromRequest"
  /\ procs' = [procs EXCEPT
                 ![p] = fromRequestNext(procs[p], Request(procs[p].in),
                          Get(Request(procs[p].in).Header, "X-Real-Ip"),
                          Get(Request(procs[p].in).Header, "X-Forwarded-For"))]
  /\ UNCHANGED <<cidrs, ready, input, called, ret>>

InitConcurrent ==
  /\ cidrs = <<>>
  /\ ready = FALSE
  /\ input = NoResult
  /\ called = "none"
  /\ ret = NoResult
  /\ procs \in [Procs -> {[op |-> c.op, in |-> c.in, k |-> 1, done |-> FALSE,
                           res |-> NoResult] : c \in CallPool}]

NextConcurrent ==
  \/ init
  \/ \E p \in Procs : StepIsPrivateAddress(p)
  \/ \E p \in Procs : StepClientIPFromRequest(p)
  \/ \E p \in Procs : StepFromRequest(p)

SpecConcurrent == InitConcurrent /\ [][NextConcurrent]_vars

(***************************************************************************)
(* The ranges of the table, stated as intervals on the numbers the inputs  *)
(* were drawn as, independently of the parsed table and its masks.         *)
(***************************************************************************)
PrivateV4(o) ==
  \/ o[1] = 127
  \/ o[1] = 10
  \/ (o[1] = 172 /\ o[2] >= 16 /\ o[2] <= 31)
  \/ (o[1] = 192 /\ o[2] = 168)
  \/ (o[1] = 169 /\ o[2] = 254)

\* ::1, fc00..fdff in the first group, fe80..febf in the first group
PrivateV6(g) ==
  \/ g = <<0, 0, 0, 0, 0, 0, 0, 1>>
  \/ (g[1] >= 64512 /\ g[1] <= 65023)
  \/ (g[1] >= 65152 /\ g[1] <= 65215)

ExpectedPrivate(in) ==
  IF in.family = "v6" THEN PrivateV6(in.groups) ELSE PrivateV4(in.bytes)

\* the same intervals on a parsed address
PrivateBytes(ip) ==
  IF SubSeq(ip, 1, 12) = v4InV6Prefix THEN PrivateV4(SubSeq(ip, 13, 16))
  ELSE PrivateV6([k \in 1..8 |-> ip[2 * k - 1] * 256 + ip[2 * k]])

(***************************************************************************)
(* The classifier and the extractor.                                       *)
(***************************************************************************)
\* C5: for every syntactically valid IP literal, isPrivateAddress returns
\* (true, nil) exactly when the address lies in 127.0.0.0/8, 10.0.0.0/8,
\* 172.16.0.0/12, 192.168.0.0/16, 169.254.0.0/16, ::1/128, fc00::/7 or
\* fe80::/10, and (false, nil) otherwise; the /12 boundary is exact.
C5_ClassifierMatchesRanges ==
  (called = "isPrivateAddress" /\ input.family # "text")
    => ret = [isPrivate |-> ExpectedPrivate(input), err |-> NoError]

\* 172.31.0.0, the last /16 of 172.16.0.0/12, has been classified as private
C5_Witness ==
  /\ called = "isPrivateAddress"
  /\ input = [family |-> "v4", bytes |-> <<172, 31, 0, 0>>]
  /\ ret.isPrivate

\* what the extractor must return for a candidate built as in CandidateText
ExpectedHost(in) ==
  CASE in.form = "bare"     -> in.host
    [] in.form = "hostport" -> in.host
    [] in.form = "bracket"  -> IF in.lpad = <<>> THEN in.host ELSE <<>>
    [] OTHER                -> <<>>

\* C6: getIPfromHostPort returns the trimmed whole string when there is no
\* colon, the trimmed host part when the string splits as host:port (also
\* in the bracketed form [::1]:8080), and the empty string when the string
\* holds a colon but does not split as host:port.
C6_ExtractorResult ==
  called = "getIPfromHostPort" => ret = ExpectedHost(input)

\* a padded host:port candidate has been reduced to its bare host
C6_Witness ==
  /\ called = "getIPfromHostPort"
  /\ input.form = "hostport" /\ input.lpad = Space /\ input.rpad = Space
  /\ input.port = Port1234
  /\ ret = Dotted(<<144, 12, 54, 87>>)

(***************************************************************************)
(* The primary resolver.                                                   *)
(***************************************************************************)
\* the value Header.Get returns for a header drawn as a list of values
FirstValue(values) == IF Len(values) = 0 THEN <<>> ELSE values[1]

\* the candidates of a request in priority order, each with its source
Candidates(in) ==
  [k \in 1..Len(in.entries) |-> [text |-> in.entries[k], source |-> "X-Forwarded-For"]]
  \o << [text |-> FirstValue(in.realIP), source |-> "X-Real-Ip"],
        [text |-> FirstValue(in.clientIP), source |-> "X-Client-Ip"],
        [text |-> RemoteText(in.remoteAddr), source |-> "remoteAddr"] >>

\* a candidate that is public once its port is stripped and it is trimmed
PublicCandidate(text) == isValidPublicIP(getIPfromHostPort(text))

PublicPositions(in) ==
  {k \in 1..Len(Candidates(in)) : PublicCandidate(Candidates(in)[k].text)}

FirstPublic(in) ==
  CHOOSE k \in PublicPositions(in) : \A j \in PublicPositions(in) : k <= j

\* C1: ClientIPFromRequest returns the first candidate that classifies as
\* public after port stripping and trimming, in the order X-Forwarded-For
\* entries left to right, X-Real-Ip, X-Client-Ip, RemoteAddr; a later source
\* is used only when no earlier one yields a public address.
C1_FirstPublicWins ==
  called = "ClientIPFromRequest" =>
    IF PublicPositions(input) = {} THEN ret.ip = <<>>
    ELSE ret.ip = getIPfromHostPort(Candidates(input)[FirstPublic(input)].text)

\* the second entry was returned although the third entry, X-Real-Ip,
\* X-Client-Ip and the connection address were public too
C1_Witness ==
  /\ called = "ClientIPFromRequest"
  /\ input.entries = <<PrivateEntry, PublicPortEntry>>
  /\ input.realIP = <<PublicRealIP>>
  /\ input.clientIP = <<PublicClientIP>>
  /\ input.remoteAddr.host = Dotted(<<144, 12, 54, 88>>)
  /\ ret.ip = Dotted(<<144, 12, 54, 87>>)

\* the tag names of the specification's enumeration, by source
SpecTag(source) ==
  CASE source = "X-Forwarded-For" -> "header-forwarded-for"
    [] source = "X-Real-Ip"       -> "header-real-ip"
    [] source = "X-Client-Ip"     -> "header-client-ip"
    [] source = "remoteAddr"      -> "connection-address"

C3_ResultIsPublic ==
  (called = "ClientIPFromRequest" /\ ret.ip # <<>>) =>
    /\ ParseIP(ret.ip) # <<>>
    /\ ~PrivateBytes(ParseIP(ret.ip))

\* private and malformed header values were passed over and the public
\* connection address was returned
C3_Witness ==
  /\ called = "ClientIPFromRequest"
  /\ input.entries = <<PrivateEntry, Malformed>>
  /\ input.realIP = <<PrivateRealIP>>
  /\ ret.ip = Dotted(<<144, 12, 54, 89>>)

\* the candidates that are private, malformed, empty, or IPv6 without brackets
UnusableTexts ==
  { PrivateEntry, Malformed, PublicColonsEntry, <<>>, PrivateRealIP, <<"-", "-">>,
    WithPort(Dotted(<<192, 168, 0, 7>>), Port1234), Colons(<<0, 0, 0, 0, 0, 0, 0, 1>>) }

AllUnusable(in) == \A k \in 1..Len(Candidates(in)) : Candidates(in)[k].text \in UnusableTexts

\* C4: when every source is private, unparseable, malformed or absent,
\* ClientIPFromRequest returns ("", "") as a normal result.
C4_NothingPublicGivesEmpty ==
  (called = "ClientIPFromRequest" /\ AllUnusable(input)) =>
    ret = [ip |-> <<>>, source |-> ""]

\* the call returned with malformed and private values in every source
C4_Witness ==
  /\ called = "ClientIPFromRequest"
  /\ input.entries = <<Malformed, PrivateEntry>>
  /\ input.realIP = <<PrivateRealIP>>
  /\ input.clientIP = <<>>
  /\ input.remoteAddr.host = <<"-", "-">>
  /\ ret = [ip |-> <<>>, source |-> ""]

(***************************************************************************)
(* The legacy resolver.                                                    *)
(***************************************************************************)
\* the X-Forwarded-For value Header.Get returns
ForwardedValue(in) == IF Len(in.entries) = 0 THEN <<>> ELSE Join(in.entries, <<",">>)

\* neither X-Real-Ip nor X-Forwarded-For carries a value
NoForwardingHeaders(in) == FirstValue(in.realIP) = <<>> /\ ForwardedValue(in) = <<>>

LegacyCalled == called \in {"FromRequest", "RealIP"}

\* C7 as stated: without the two headers the result is RemoteAddr itself
\* when it has no port, otherwise its host part, for every RemoteAddr.
C7_RemoteVerbatim ==
  (LegacyCalled /\ NoForwardingHeaders(input)) => ret = input.remoteAddr.host

\* C7 amended: without the two headers the result is, unclassified,
\* RemoteAddr itself when it holds no colon, its host part when it splits
\* as host:port, and the empty string when it holds a colon but does not
\* split as host:port (an IPv6 literal without brackets and port).
C7_RemotePortStripped ==
  (LegacyCalled /\ NoForwardingHeaders(input)) =>
    ret = IF ~input.remoteAddr.port /\ ContainsRune(input.remoteAddr.host, ":")
          THEN <<>>
          ELSE input.remoteAddr.host

\* a private connection address was returned, its port stripped
C7_Witness ==
  /\ called = "FromRequest"
  /\ NoForwardingHeaders(input)
  /\ input.remoteAddr.port
  /\ ret = Dotted(<<192, 168, 0, 7>>)

\* an entry the legacy loop accepts: a public IP literal once trimmed
LegacyPublic(text) == publicResult(isPrivateAddress(TrimSpace(text)))

LegacyPositions(in) == {k \in 1..Len(in.entries) : LegacyPublic(in.entries[k])}

FirstLegacy(in) == CHOOSE k \in LegacyPositions(in) : \A j \in LegacyPositions(in) : k <= j

\* C8: with X-Real-Ip or X-Forwarded-For present, FromRequest returns the
\* first X-Forwarded-For entry, in list order, that classifies as public
\* (entries are trimmed); if none does it returns the X-Real-Ip value as it
\* is, and the connection address plays no part.
C8_LegacyForwardedThenRealIP ==
  (LegacyCalled /\ ~NoForwardingHeaders(input)) =>
    ret = IF LegacyPositions(input) = {} THEN FirstValue(input.realIP)
          ELSE TrimSpace(input.entries[FirstLegacy(input)])

\* no entry was public and the private X-Real-Ip value came back, port and all
C8_Witness ==
  /\ called = "FromRequest"
  /\ input.entries = <<PrivateEntry, Malformed>>
  /\ input.realIP = <<PrivateRealIP>>
  /\ input.remoteAddr.host = Dotted(<<144, 12, 54, 88>>)
  /\ ret = PrivateRealIP

(***************************************************************************)
(* The two resolvers on the same X-Forwarded-For value.                    *)
(***************************************************************************)
\* the first entry that is public after port stripping is the host:port one
FirstPublicHasPort(in) ==
  \E k \in 1..Len(in.entries) :
    /\ in.entries[k] = PublicPortEntry
    /\ \A j \in 1..(k - 1) : ~PublicCandidate(in.entries[j])

StrippedPortEntry == Dotted(<<144, 12, 54, 87>>)

EightBlocks ==
  << [IP |-> <<127, 0, 0, 0>>, Mask |-> <<255, 0, 0, 0>>],
     [IP |-> <<10, 0, 0, 0>>, Mask |-> <<255, 0, 0, 0>>],
     [IP |-> <<172, 16, 0, 0>>, Mask |-> <<255, 240, 0, 0>>],
     [IP |-> <<192, 168, 0, 0>>, Mask |-> <<255, 255, 0, 0>>],
     [IP |-> <<169, 254, 0, 0>>, Mask |-> <<255, 255, 0, 0>>],
     [IP |-> Zeros(15) \o <<1>>, Mask |-> [k \in 1..16 |-> 255]],
     [IP |-> <<252>> \o Zeros(15), Mask |-> <<254>> \o Zeros(15)],
     [IP |-> <<254, 128>> \o Zeros(14), Mask |-> <<255, 192>> \o Zeros(14)] >>

\* the result of a whole call made alone
CallResult(c) ==
  CASE c.op = "isPrivateAddress"    -> isPrivateAddress(AddressText(c.in))
    [] c.op = "ClientIPFromRequest" -> ClientIPFromRequest(Request(c.in))
    [] c.op = "FromRequest"         -> FromRequest(Request(c.in))

TableIsEightBlocks == ready => cidrs = EightBlocks

ResultsDependOnInputsOnly ==
  \A p \in Procs : procs[p].done =>
    /\ procs[p].res = CallResult(procs[p])
    /\ \A q \in Procs :
         (procs[q].done /\ procs[q].op = procs[p].op /\ procs[q].in = procs[p].in)
           => procs[q].res = procs[p].res

\* C9: the table is written by the one-time initialization only; under any
\* interleaving of concurrent classifier and resolver calls it keeps its
\* eight networks, no call changes it, and a call's result depends on its
\* own input only.
C9_TableReadOnly ==
  /\ [](TableIsEightBlocks /\ ResultsDependOnInputsOnly)
  /\ [][(cidrs' # cidrs) => (~ready /\ ready')]_vars

\* a primary and a legacy call on the same headers have both finished,
\* interleaved, with their different results
C9_Witness ==
  /\ cidrs = EightBlocks
  /\ procs[1].done /\ procs[2].done
  /\ procs[1].op = "ClientIPFromRequest" /\ procs[2].op = "FromRequest"
  /\ procs[1].in = procs[2].in
  /\ procs[1].res.ip = StrippedPortEntry
  /\ procs[2].res = PrivateRealIP

====
